---------------------------- MODULE Spec2Model ----------------------------
(***************************************************************************)
(* Work lifecycle and payment reconciliation of US-MANAGEMENT.             *)
(*                                                                         *)
(* The state is the database (clients, works, payments, history) and, for  *)
(* every in-flight HTTP request, the position of its handler and the       *)
(* handler's local variables.  Every step is one database round trip of a  *)
(* handler (one `await prisma...`) together with the local computation     *)
(* that follows it up to the next round trip, so that requests interleave  *)
(* exactly where the Node.js event loop lets them interleave.              *)
(*                                                                         *)
(* PaymentService.getPaymentSummary issues two reads (the work, then its   *)
(* payments).  It is modelled as one read: fees never change, so the only  *)
(* interleaving the split adds is a delete between the two reads, and that *)
(* changes an error response but never a database write.                   *)
(*                                                                         *)
(* Besides the handlers of works, payments, history and clients the module *)
(* holds the users table with the start-up and login creation of the admin *)
(* user, the payment migration script, and the browser page's add-payment  *)
(* action with the fetchWithRetry loop under it.  Each part has its own    *)
(* specification over the same variables.                                  *)
(***************************************************************************)
EXTENDS Integers, Sequences, FiniteSets, TLC

(***************************************************************************)
(* Bounds of the model.                                                    *)
(***************************************************************************)
NumProcs == 2      \* concurrent requests in flight
MaxWorks == 2      \* work ids ever allocated
MaxClients == 2    \* clients present at start
MaxFees == 2       \* largest fee / amount a request carries
MaxRequests == 2
\* the retries handleAddPayment passes to safeApiCall
maxRetries == 3

Procs == 1..NumProcs
WorkIds == 1..MaxWorks
ClientIds == 1..MaxClients
NoDate == 0                       \* completionDate: null
\* Dates are opaque: every `new Date()` is the same token.  A write of a
\* date over a date is seen on the step that writes, not in the value.
now == 1
\* req.body.fees is not validated: a negative fee, none, the largest
FeeInputs == {0 - 1, 0, MaxFees}
\* req.body.amount as the JSON body carries it: a number (negative, zero,
\* a part of the fee, the whole fee), null, a string that is no numeral,
\* a string that names infinity, a boolean
AmountInputs ==
    {[t |-> "num", v |-> n] : n \in {0 - 1, 0, 1, MaxFees}}
        \cup {[t |-> "null"], [t |-> "str", v |-> "abc"],
              [t |-> "str", v |-> "Infinity"], [t |-> "bool", v |-> TRUE]}
\* services/init.service.ts
ADMIN_USERNAME == "Kapil1980"
Usernames == {ADMIN_USERNAME, "user"}
\* req.body.password of a login: none, the user's password, another
PasswordInputs == {"", "right", "wrong"}
\* the name every client row starts with
InitialName == "name"
\* req.body.name of a client update: empty, or another name
NameInputs == {"", "renamed"}
\* the maxRetries a call of fetchWithRetry is given
RetryInputs == 0..maxRetries
\* response.status of a fetch: none (an opaque response), a success, a
\* client error, server errors
ResponseStatuses == {0, 200, 404, 500, 503}
\* what req.body of an add-work carries besides client and fees: the
\* body of the form left as it is, a body with a status and the flag of
\* its own, and a body with those and the form's completion date filled in
WorkBodies ==
    {[status |-> "pending", paymentReceived |-> FALSE, completionDate |-> NoDate],
     [status |-> "finalCompleted", paymentReceived |-> TRUE, completionDate |-> NoDate],
     [status |-> "completed", paymentReceived |-> TRUE, completionDate |-> now]}
\* the body of the form left as it is
FormBodies == {b \in WorkBodies : b.status = "pending"}
StatusInputs == {"pending", "completed", "finalCompleted", "archived"}

VARIABLES
    clients,      \* set of existing client ids
    clientNames,  \* client id -> the name stored in its row
    users,        \* username -> number of user rows with that username
    works,        \* work id -> row, for the rows that exist
    nextWorkId,   \* ids are never reused
    payments,     \* work id -> payment rows in insertion order
    history,      \* history rows in insertion order
    pc,           \* per request slot: position in its handler
    req,          \* per request slot: the request (route and body)
    loc,          \* per request slot: the handler's local variables
    resp,         \* the response sent by the step just taken, if any
    started,      \* number of requests started so far
    snapEver,     \* work ids for which a history row was ever inserted
    caller        \* the browser page: its add-payment action and fetch loop

vars == <<clients, clientNames, users, works, nextWorkId, payments, history,
          pc, req, loc, resp, snapEver, started, caller>>
db == <<clients, clientNames, users, works, nextWorkId, payments, history>>

--------------------------------------------------------------------------
(* utils/status.utils.ts *)

toPrismaStatus(status) ==
    CASE status = "pending" -> "PENDING"
      [] status = "completed" -> "COMPLETED"
      [] status = "finalCompleted" -> "FINAL_COMPLETED"

fromPrismaStatus(status) ==
    CASE status = "PENDING" -> "pending"
      [] status = "COMPLETED" -> "completed"
      [] status = "FINAL_COMPLETED" -> "finalCompleted"
      [] OTHER -> "pending"

--------------------------------------------------------------------------
(* Pure helpers *)

\* JavaScript Number(amount) on a value that is not null: a number is
\* itself, true is 1 and false 0, "Infinity" is infinite, any other
\* string here is NaN
Number(amount) ==
    CASE amount.t = "num" -> amount
      [] amount.t = "bool" -> [t |-> "num", v |-> IF amount.v THEN 1 ELSE 0]
      [] amount.t = "str" /\ amount.v = "Infinity" -> [t |-> "inf"]
      [] OTHER -> [t |-> "nan"]

RECURSIVE SumAmounts(_)
SumAmounts(s) ==
    IF s = <<>> THEN 0 ELSE Head(s).amount + SumAmounts(Tail(s))

RECURSIVE Reverse(_)
Reverse(s) ==
    IF s = <<>> THEN <<>> ELSE Append(Reverse(Tail(s)), Head(s))

Max(a, b) == IF a >= b THEN a ELSE b

RemoveAt(s, i) == [j \in 1..(Len(s) - 1) |-> IF j < i THEN s[j] ELSE s[j + 1]]

--------------------------------------------------------------------------
(* Services: reads *)

\* WorkService.findById: TRUE when a row is returned
findById(id) == id \in DOMAIN works

\* PaymentService.findByWorkId: orderBy paymentDate desc.  Rows are
\* stamped from a clock that never goes back, so the newest row is first.
findByWorkId(workId) == Reverse(payments[workId])

\* Mutant: the difference is not floored at zero
getPaymentSummary_NoFloor(workId) ==
    IF workId \notin DOMAIN works
    THEN [isNull |-> TRUE]
    ELSE LET ps == findByWorkId(workId)
             totalPaid == SumAmounts(ps)
         IN  [isNull |-> FALSE,
              totalFees |-> works[workId].fees,
              totalPaid |-> totalPaid,
              remainingAmount |-> works[workId].fees - totalPaid,
              payments |-> ps]

\* PaymentService.getPaymentSummary
getPaymentSummary(workId) ==
    IF workId \notin DOMAIN works
    THEN [isNull |-> TRUE]
    ELSE LET ps == findByWorkId(workId)
             totalPaid == SumAmounts(ps)
         IN  [isNull |-> FALSE,
              totalFees |-> works[workId].fees,
              totalPaid |-> totalPaid,
              remainingAmount |-> Max(0, works[workId].fees - totalPaid),
              payments |-> ps]

\* PaymentService.validatePaymentAmount
validatePaymentAmount(workId, amount) ==
    LET summary == getPaymentSummary(workId) IN
    IF summary.isNull
    THEN [valid |-> FALSE, remainingAmount |-> 0, error |-> "Work not found"]
    ELSE IF amount <= 0
    THEN [valid |-> FALSE, remainingAmount |-> summary.remainingAmount,
          error |-> "must be greater than zero"]
    ELSE IF amount > summary.remainingAmount
    THEN [valid |-> FALSE, remainingAmount |-> summary.remainingAmount,
          error |-> "exceeds remaining amount"]
    ELSE [valid |-> TRUE, remainingAmount |-> summary.remainingAmount,
          error |-> ""]

\* HistoryService.existsForWork
existsForWork(workId) ==
    Cardinality({i \in 1..Len(history) : history[i].originalWorkId = workId}) > 0

\* Mutant: the table has no unique index
UniqueConstraintViolated_Off(workId) == FALSE

\* The unique index on history.originalWorkId
UniqueConstraintViolated(workId) ==
    \E i \in 1..Len(history) : history[i].originalWorkId = workId

\* UserService.findByUsername: TRUE when a row is returned
findByUsername(username) == users[username] > 0

\* Mutant: usernames are not unique
UserUniqueViolated_Off(username) == FALSE

\* The unique index on users.username
UserUniqueViolated(username) == users[username] > 0

\* onDelete: Cascade from works to payments
CascadePayments(deleted) ==
    [w \in WorkIds |-> IF w \in deleted THEN <<>> ELSE payments[w]]

--------------------------------------------------------------------------
(* Request slots *)

NoReq == [op |-> "none"]
NoLoc == [none |-> TRUE]
NoResp == [req |-> NoReq, code |-> 0, kind |-> "none", body |-> NoLoc]
\* no call of fetchWithRetry is under way.  seen is not a program
\* variable: the outcomes of the attempts of the call so far.
NoCaller == [state |-> "idle", attempt |-> 0, slot |-> 0,
             workId |-> 0, amount |-> 0, ledgerLen |-> 0, status |-> 0,
             maxRetries |-> maxRetries, result |-> "none", seen |-> <<>>]

\* what `await fetch(url, options)` gives: a response with its status,
\* or a thrown error
Response(status) == [t |-> "response", status |-> status]
Thrown == [t |-> "throw"]

Outcomes == {Response(st) : st \in ResponseStatuses} \cup {Thrown}

\* Mutant: a client error is retried like a server error
AfterAttempt_RetriesClientErrors(o) ==
    LET left == caller.attempt < caller.maxRetries - 1
        c == [caller EXCEPT !.seen = Append(@, o), !.slot = 0] IN
    IF o.t = "throw"
    THEN IF left THEN [c EXCEPT !.state = "retry", !.attempt = @ + 1]
         ELSE [c EXCEPT !.state = "done", !.result = "threw", !.status = 0]
    ELSE IF (o.status >= 400 \/ o.status = 0) /\ left
    THEN [c EXCEPT !.state = "retry", !.attempt = @ + 1]
    ELSE [c EXCEPT !.state = "done", !.result = "returned",
                   !.status = o.status]

\* fetchWithRetry, one pass of the loop with outcome o of the fetch: a
\* response of status 500 or more, or of status 0, and a thrown error
\* are retried after the delay while attempts are left; otherwise the
\* response is returned or, after the loop, the last error thrown
AfterAttempt(o) ==
    LET left == caller.attempt < caller.maxRetries - 1
        c == [caller EXCEPT !.seen = Append(@, o), !.slot = 0] IN
    IF o.t = "throw"
    THEN IF left THEN [c EXCEPT !.state = "retry", !.attempt = @ + 1]
         ELSE [c EXCEPT !.state = "done", !.result = "threw", !.status = 0]
    ELSE IF (o.status >= 500 \/ o.status = 0) /\ left
    THEN [c EXCEPT !.state = "retry", !.attempt = @ + 1]
    ELSE [c EXCEPT !.state = "done", !.result = "returned",
                   !.status = o.status]

\* the response of slot p on its way to whoever sent the request: when
\* it was the page's fetch, the page gets the response or, the
\* connection failing, an error
Deliver(p, code) ==
    IF caller.slot = p /\ pc[p] # "idle"
    THEN \E o \in {Response(code), Thrown} : caller' = AfterAttempt(o)
    ELSE caller' = caller

\* a slot is free and the run may still start a request; handler
\* invocations have no identity, so a request takes the first free slot
Free(p) ==
    /\ pc[p] = "idle"
    /\ \A q \in Procs : q < p => pc[q] # "idle"
    /\ started < MaxRequests

\* res.status(code).json(body): the handler of request rq returns.  rq
\* holds the fields of the request the handler had used by then.  A
\* request answered by its first step is started and ended by that step.
Reply(p, rq, r) ==
    /\ pc' = [pc EXCEPT ![p] = "idle"]
    /\ req' = [req EXCEPT ![p] = NoReq]
    /\ loc' = [loc EXCEPT ![p] = NoLoc]
    /\ resp' = [req |-> rq, code |-> r.code, kind |-> r.kind, body |-> r]
    /\ started' = IF pc[p] = "idle" THEN started + 1 ELSE started
    /\ Deliver(p, r.code)

\* the handler of a new request rq reaches its next await
Accept(p, rq, label, l) ==
    /\ pc' = [pc EXCEPT ![p] = label]
    /\ req' = [req EXCEPT ![p] = rq]
    /\ started' = started + 1
    /\ loc' = [loc EXCEPT ![p] = l]
    /\ resp' = NoResp
    /\ caller' = caller

\* a running handler reaches its next await
Goto(p, label, l) ==
    /\ pc' = [pc EXCEPT ![p] = label]
    /\ loc' = [loc EXCEPT ![p] = l]
    /\ resp' = NoResp
    /\ UNCHANGED <<req, started, caller>>

Finish(p, r) == Reply(p, req[p], r)

Err(code, kind) == [code |-> code, kind |-> kind]

\* The database a run starts from: the client rows, and either no work
\* or the one work that createWork left behind: still Pending, marked
\* Completed since, or finalized since with its ledger settled and its
\* snapshot written.  The ledger is what at most one accepted payment
\* leaves behind.
InitialWorks ==
    {<<>>} \cup
    {[w \in {1} |-> [clientId |-> 1, fees |-> f, completionDate |-> NoDate,
                     paymentReceived |-> FALSE,
                     status |-> toPrismaStatus("pending")]] : f \in {0, MaxFees}}
    \cup
    {[w \in {1} |-> [clientId |-> 1, fees |-> f, completionDate |-> now,
                     paymentReceived |-> FALSE,
                     status |-> toPrismaStatus(st)]] :
        f \in {0, MaxFees}, st \in {"completed", "finalCompleted"}}

InitialLedgers(f) ==
    {<<>>} \cup {<<[amount |-> a, paymentDate |-> now]>> : a \in {1, f} \cap 1..f}

\* the row the finalize of work 1 stored
InitialHistory(w, l) ==
    <<[clientName |-> InitialName,
       fees |-> w.fees,
       totalPaid |-> IF SumAmounts(l) = 0 THEN w.fees ELSE SumAmounts(l),
       paymentDetails |-> Reverse(l),
       completionDate |-> w.completionDate,
       paymentReceivedDate |-> now,
       originalWorkId |-> 1,
       originalClientId |-> w.clientId]>>

Init ==
    /\ clients = ClientIds
    /\ clientNames = [c \in ClientIds |-> InitialName]
    /\ users = [u \in Usernames |-> IF u = ADMIN_USERNAME THEN 1 ELSE 0]
    /\ works \in InitialWorks
    /\ nextWorkId = Cardinality(DOMAIN works) + 1
    /\ payments \in {[w \in WorkIds |-> IF w = 1 THEN l ELSE <<>>] :
                        l \in IF works = <<>> THEN {<<>>}
                              ELSE IF works[1].status = "FINAL_COMPLETED"
                              THEN {m \in InitialLedgers(works[1].fees) :
                                       SumAmounts(m) = works[1].fees}
                              ELSE InitialLedgers(works[1].fees)}
    /\ history = IF works # <<>> /\ works[1].status = "FINAL_COMPLETED"
                 THEN InitialHistory(works[1], payments[1]) ELSE <<>>
    /\ snapEver = {history[i].originalWorkId : i \in 1..Len(history)}
    /\ pc = [p \in Procs |-> "idle"]
    /\ req = [p \in Procs |-> NoReq]
    /\ loc = [p \in Procs |-> NoLoc]
    /\ resp = NoResp
    /\ started = 0
    /\ caller = NoCaller

--------------------------------------------------------------------------
(* POST /api/works/create *)

\* Mutant: the row takes the status the body carries
AddWork_BodyStatus(p, clientId, fees, body) ==
    LET rq == [op |-> "addWork", clientId |-> clientId, fees |-> fees,
               body |-> body] IN
    /\ Free(p)
    /\ IF clientId \notin clients
       THEN /\ Reply(p, [op |-> "addWork", clientId |-> clientId],
                       Err(404, "NotFound"))
            /\ UNCHANGED <<db, snapEver>>
       ELSE /\ nextWorkId <= MaxWorks
            /\ works' = [w \in DOMAIN works \cup {nextWorkId} |->
                           IF w = nextWorkId
                           THEN [clientId |-> clientId,
                                 fees |-> fees,
                                 completionDate |-> body.completionDate,
                                 paymentReceived |-> FALSE,
                                 status |-> toPrismaStatus(body.status)]
                           ELSE works[w]]
            /\ nextWorkId' = nextWorkId + 1
            /\ pc' = pc /\ req' = req /\ loc' = loc /\ caller' = caller
            /\ resp' = [req |-> rq, code |-> 201, kind |-> "ok",
                        body |-> [code |-> 201, kind |-> "ok", workId |-> nextWorkId]]
            /\ started' = started + 1
            /\ UNCHANGED <<clients, clientNames, users, payments, history, snapEver>>

\* Of req.body the handler takes clientId, purpose, fees and
\* completionDate; status and paymentReceived of the row are the
\* constants 'pending' and false.
AddWork(p, clientId, fees, body) ==
    LET rq == [op |-> "addWork", clientId |-> clientId, fees |-> fees,
               body |-> body]
        workData == [clientId |-> clientId,
                     fees |-> fees,
                     completionDate |-> body.completionDate,
                     status |-> "pending",
                     paymentReceived |-> FALSE] IN
    /\ Free(p)
    /\ IF clientId \notin clients
       THEN /\ Reply(p, [op |-> "addWork", clientId |-> clientId],
                       Err(404, "NotFound"))      \* foreign key violation
            /\ UNCHANGED <<db, snapEver>>
       ELSE /\ nextWorkId <= MaxWorks
            /\ works' = [w \in DOMAIN works \cup {nextWorkId} |->
                           IF w = nextWorkId
                           THEN [clientId |-> workData.clientId,
                                 fees |-> workData.fees,
                                 completionDate |-> workData.completionDate,
                                 paymentReceived |-> workData.paymentReceived,
                                 status |-> toPrismaStatus(workData.status)]
                           ELSE works[w]]
            /\ nextWorkId' = nextWorkId + 1
            /\ pc' = pc /\ req' = req /\ loc' = loc /\ caller' = caller
            /\ resp' = [req |-> rq, code |-> 201, kind |-> "ok",
                        body |-> [code |-> 201, kind |-> "ok", workId |-> nextWorkId]]
            /\ started' = started + 1
            /\ UNCHANGED <<clients, clientNames, users, payments, history, snapEver>>

--------------------------------------------------------------------------
(* POST /api/payments/create *)

\* Mutant: the handler does not compare the amount with zero
PayBegin_NoPositiveCheck(p, workId, amount, isAdmin) ==
    LET paymentAmount == Number(amount)
        rq == [op |-> "addPayment", id |-> workId, amount |-> paymentAmount,
               isAdmin |-> isAdmin]
        bad == [op |-> "addPayment", amount |-> amount, isAdmin |-> TRUE] IN
    /\ Free(p)
    /\ UNCHANGED <<db, snapEver>>
    /\ IF ~isAdmin
       THEN Reply(p, [op |-> "addPayment", isAdmin |-> FALSE], Err(403, "AdminRequired"))
       ELSE IF amount.t = "null" THEN Reply(p, bad, Err(400, "InvalidAmount"))
       ELSE IF paymentAmount.t = "nan" THEN Reply(p, bad, Err(400, "InvalidAmount"))
       ELSE IF paymentAmount.t = "inf" THEN Reply(p, bad, Err(400, "InvalidAmount"))
       ELSE IF ~findById(workId)
       THEN Reply(p, [op |-> "addPayment", id |-> workId, isAdmin |-> TRUE],
                  Err(404, "NotFound"))
       ELSE Accept(p, rq, "pay_validate", [fees |-> works[workId].fees])

PayBegin(p, workId, amount, isAdmin) ==
    LET paymentAmount == Number(amount)
        rq == [op |-> "addPayment", id |-> workId, amount |-> paymentAmount,
               isAdmin |-> isAdmin]
        bad == [op |-> "addPayment", amount |-> amount, isAdmin |-> TRUE] IN
    /\ Free(p)
    /\ UNCHANGED <<db, snapEver>>
    /\ IF ~isAdmin
       THEN Reply(p, [op |-> "addPayment", isAdmin |-> FALSE], Err(403, "AdminRequired"))
       ELSE IF amount.t = "null" THEN Reply(p, bad, Err(400, "InvalidAmount"))
       ELSE IF paymentAmount.t = "nan" THEN Reply(p, bad, Err(400, "InvalidAmount"))
       ELSE IF paymentAmount.t = "num" /\ paymentAmount.v <= 0
       THEN Reply(p, bad, Err(400, "InvalidAmount"))
       ELSE IF paymentAmount.t = "inf" THEN Reply(p, bad, Err(400, "InvalidAmount"))
       ELSE IF ~findById(workId)
       THEN Reply(p, [op |-> "addPayment", id |-> workId, isAdmin |-> TRUE],
                  Err(404, "NotFound"))
       ELSE Accept(p, rq, "pay_validate", [fees |-> works[workId].fees])

\* Mutant: the handler inserts whatever the validation says
PayValidate_NoBalanceCheck(p) ==
    /\ pc[p] = "pay_validate"
    /\ UNCHANGED <<db, snapEver>>
    /\ Goto(p, "pay_create", loc[p])

PayValidate(p) ==
    /\ pc[p] = "pay_validate"
    /\ UNCHANGED <<db, snapEver>>
    /\ LET validation == validatePaymentAmount(req[p].id, req[p].amount.v) IN
       IF ~validation.valid \/ req[p].amount.v > validation.remainingAmount
       THEN Finish(p, [code |-> 400,
                       kind |-> IF validation.error = "Work not found"
                                THEN "NotFound" ELSE "OverpaymentRejected",
                       remainingAmount |-> validation.remainingAmount,
                       totalFees |-> loc[p].fees])
       ELSE Goto(p, "pay_create", loc[p])

\* Mutant: the work keeps one row, and a payment is added into it
PayCreate_Accumulate(p) ==
    /\ pc[p] = "pay_create"
    /\ UNCHANGED <<clients, clientNames, users, works, nextWorkId, history, snapEver>>
    /\ IF req[p].id \notin DOMAIN works
       THEN /\ Finish(p, Err(404, "NotFound"))
            /\ UNCHANGED payments
       ELSE /\ payments' = [payments EXCEPT ![req[p].id] =
                              <<[amount |-> SumAmounts(@) + req[p].amount.v,
                                 paymentDate |-> now]>>]
            /\ Goto(p, "pay_summary", NoLoc)

\* Mutant: payments.workId is no foreign key
PayCreate_NoForeignKey(p) ==
    /\ pc[p] = "pay_create"
    /\ UNCHANGED <<clients, clientNames, users, works, nextWorkId, history, snapEver>>
    /\ payments' = [payments EXCEPT ![req[p].id] =
                       Append(@, [amount |-> req[p].amount.v,
                                  paymentDate |-> now])]
    /\ Goto(p, "pay_summary", NoLoc)

\* PaymentService.create
PayCreate(p) ==
    /\ pc[p] = "pay_create"
    /\ UNCHANGED <<clients, clientNames, users, works, nextWorkId, history, snapEver>>
    /\ IF req[p].id \notin DOMAIN works
       THEN /\ Finish(p, Err(404, "NotFound"))     \* foreign key violation
            /\ UNCHANGED payments
       ELSE /\ payments' = [payments EXCEPT ![req[p].id] =
                              Append(@, [amount |-> req[p].amount.v,
                                         paymentDate |-> now])]
            /\ Goto(p, "pay_summary", NoLoc)

\* Mutant: canFinalize compares the total paid with the fees
PaySummary_ExactMatch(p) ==
    /\ pc[p] = "pay_summary"
    /\ UNCHANGED <<db, snapEver>>
    /\ LET summary == getPaymentSummary(req[p].id) IN
       IF summary.isNull
       THEN Finish(p, Err(500, "SummaryUnavailable"))
       ELSE Finish(p, [code |-> 201, kind |-> "ok",
                       totalPaid |-> summary.totalPaid,
                       remainingAmount |-> summary.remainingAmount,
                       canFinalize |-> (summary.totalPaid = summary.totalFees)])

\* PaymentService.getPaymentSummary after the insert, and the response
PaySummary(p) ==
    /\ pc[p] = "pay_summary"
    /\ UNCHANGED <<db, snapEver>>
    /\ LET summary == getPaymentSummary(req[p].id) IN
       IF summary.isNull
       THEN Finish(p, Err(500, "SummaryUnavailable"))
       ELSE Finish(p, [code |-> 201, kind |-> "ok",
                       totalPaid |-> summary.totalPaid,
                       remainingAmount |-> summary.remainingAmount,
                       canFinalize |-> (summary.remainingAmount = 0)])

--------------------------------------------------------------------------
(* PATCH /api/works/[id]/update-status *)

\* Mutant: a finalize goes to the write without reading the balance
UsBegin_NoBalanceRead(p, id, status, isAdmin) ==
    LET rq == [op |-> "updateStatus", id |-> id, status |-> status,
               isAdmin |-> isAdmin] IN
    /\ Free(p)
    /\ UNCHANGED <<db, snapEver>>
    /\ IF ~isAdmin
       THEN Reply(p, [op |-> "updateStatus", isAdmin |-> FALSE], Err(403, "AdminRequired"))
       ELSE IF status \notin {"pending", "completed", "finalCompleted"}
       THEN Reply(p, [op |-> "updateStatus", status |-> status, isAdmin |-> TRUE],
                  Err(400, "InvalidStatus"))
       ELSE IF ~findById(id)
       THEN Reply(p, [op |-> "updateStatus", id |-> id, isAdmin |-> TRUE],
                  Err(404, "NotFound"))
       ELSE LET currentWork == works[id]
                l == [cwStatus |-> fromPrismaStatus(currentWork.status),
                      cwDate |-> currentWork.completionDate,
                      updDate |-> IF status \in {"completed", "finalCompleted"}
                                     /\ currentWork.completionDate = NoDate
                                  THEN now ELSE NoDate]
            IN  Accept(p, rq, "us_update", l)

UsBegin(p, id, status, isAdmin) ==
    LET rq == [op |-> "updateStatus", id |-> id, status |-> status,
               isAdmin |-> isAdmin] IN
    /\ Free(p)
    /\ UNCHANGED <<db, snapEver>>
    /\ IF ~isAdmin
       THEN Reply(p, [op |-> "updateStatus", isAdmin |-> FALSE], Err(403, "AdminRequired"))
       ELSE IF status \notin {"pending", "completed", "finalCompleted"}
       THEN Reply(p, [op |-> "updateStatus", status |-> status, isAdmin |-> TRUE],
                  Err(400, "InvalidStatus"))
       ELSE IF ~findById(id)
       THEN Reply(p, [op |-> "updateStatus", id |-> id, isAdmin |-> TRUE],
                  Err(404, "NotFound"))
       ELSE LET currentWork == works[id]
                l == [cwStatus |-> fromPrismaStatus(currentWork.status),
                      cwDate |-> currentWork.completionDate,
                      \* updateData.completionDate, NoDate when left undefined
                      updDate |-> IF status = "completed"
                                     /\ currentWork.completionDate = NoDate
                                  THEN now ELSE NoDate]
            IN  IF status = "finalCompleted"
                THEN Accept(p, rq, "us_summary", l)
                ELSE Accept(p, rq, "us_update", l)

\* Mutant: the balance is read but not compared with zero
UsSummary_SkipBalance(p) ==
    /\ pc[p] = "us_summary"
    /\ UNCHANGED <<db, snapEver>>
    /\ LET paymentSummary == getPaymentSummary(req[p].id) IN
       IF paymentSummary.isNull
       THEN Finish(p, Err(500, "SummaryUnavailable"))
       ELSE Goto(p, "us_update",
                 [loc[p] EXCEPT !.updDate =
                     IF loc[p].cwDate = NoDate THEN now ELSE @])

\* Mutant: a finalize is let through once anything has been paid
UsSummary_AnyPayment(p) ==
    /\ pc[p] = "us_summary"
    /\ UNCHANGED <<db, snapEver>>
    /\ LET paymentSummary == getPaymentSummary(req[p].id) IN
       IF paymentSummary.isNull
       THEN Finish(p, Err(500, "SummaryUnavailable"))
       ELSE IF paymentSummary.remainingAmount # 0 /\ paymentSummary.totalPaid = 0
       THEN Finish(p, [code |-> 400, kind |-> "PaymentPending",
                       remainingAmount |-> paymentSummary.remainingAmount,
                       totalFees |-> paymentSummary.totalFees,
                       totalPaid |-> paymentSummary.totalPaid])
       ELSE Goto(p, "us_update",
                 [loc[p] EXCEPT !.updDate =
                     IF loc[p].cwDate = NoDate THEN now ELSE @])

\* Final completion is allowed only when remainingAmount === 0
UsSummary(p) ==
    /\ pc[p] = "us_summary"
    /\ UNCHANGED <<db, snapEver>>
    /\ LET paymentSummary == getPaymentSummary(req[p].id) IN
       IF paymentSummary.isNull
       THEN Finish(p, Err(500, "SummaryUnavailable"))
       ELSE IF paymentSummary.remainingAmount # 0
       THEN Finish(p, [code |-> 400, kind |-> "PaymentPending",
                       remainingAmount |-> paymentSummary.remainingAmount,
                       totalFees |-> paymentSummary.totalFees,
                       totalPaid |-> paymentSummary.totalPaid])
       ELSE Goto(p, "us_update",
                 [loc[p] EXCEPT !.updDate =
                     IF loc[p].cwDate = NoDate THEN now ELSE @])

\* Mutant: the update writes the status and leaves the date out
UsUpdate_DropsDate(p) ==
    /\ pc[p] = "us_update"
    /\ UNCHANGED <<clients, clientNames, users, nextWorkId, payments, history, snapEver>>
    /\ IF req[p].id \notin DOMAIN works
       THEN /\ Finish(p, Err(500, "ServerError"))
            /\ UNCHANGED works
       ELSE LET updatedWork ==
                   [works[req[p].id] EXCEPT
                      !.status = toPrismaStatus(req[p].status)]
            IN  /\ works' = [works EXCEPT ![req[p].id] = updatedWork]
                /\ IF req[p].status = "finalCompleted"
                      /\ updatedWork.completionDate # NoDate
                   THEN Goto(p, "us_exists", NoLoc)
                   ELSE Finish(p, [code |-> 200, kind |-> "ok", log |-> ""])

\* WorkService.update(id, updateData)
UsUpdate(p) ==
    /\ pc[p] = "us_update"
    /\ UNCHANGED <<clients, clientNames, users, nextWorkId, payments, history, snapEver>>
    /\ IF req[p].id \notin DOMAIN works
       THEN /\ Finish(p, Err(500, "ServerError"))   \* record to update not found
            /\ UNCHANGED works
       ELSE LET updatedWork ==
                   [works[req[p].id] EXCEPT
                      !.status = toPrismaStatus(req[p].status),
                      !.completionDate =
                          IF loc[p].updDate # NoDate THEN loc[p].updDate ELSE @]
            IN  /\ works' = [works EXCEPT ![req[p].id] = updatedWork]
                /\ IF req[p].status = "finalCompleted"
                      /\ updatedWork.completionDate # NoDate
                   THEN Goto(p, "us_exists", NoLoc)
                   ELSE Finish(p, [code |-> 200, kind |-> "ok", log |-> ""])

\* Mutant: a snapshot that is already there is reported as a conflict
UsExists_Conflict(p) ==
    /\ pc[p] = "us_exists"
    /\ UNCHANGED <<db, snapEver>>
    /\ IF existsForWork(req[p].id)
       THEN Finish(p, Err(409, "AlreadyExists"))
       ELSE Goto(p, "us_wwc", NoLoc)

\* HistoryService.existsForWork(id), asked by the handler: when a row is
\* there the snapshot block is skipped and the updated work is returned
UsExists(p) ==
    /\ pc[p] = "us_exists"
    /\ UNCHANGED <<db, snapEver>>
    /\ IF existsForWork(req[p].id)
       THEN Finish(p, [code |-> 200, kind |-> "ok", log |-> "",
                       historyExists |-> TRUE])
       ELSE Goto(p, "us_wwc", NoLoc)

\* WorkService.findByIdWithClient(id)
UsFindWithClient(p) ==
    /\ pc[p] = "us_wwc"
    /\ UNCHANGED <<db, snapEver>>
    /\ IF req[p].id \notin DOMAIN works
       THEN Finish(p, [code |-> 200, kind |-> "ok", log |-> ""])
       ELSE Goto(p, "us_snapsum",
                 [workWithClient |-> [clientName |->
                                          clientNames[works[req[p].id].clientId],
                                      fees |-> works[req[p].id].fees,
                                      completionDate |-> works[req[p].id].completionDate,
                                      clientId |-> works[req[p].id].clientId]])

\* PaymentService.getPaymentSummary(id) for the snapshot, and the
\* arguments of HistoryService.create
UsSnapshotSummary(p) ==
    /\ pc[p] = "us_snapsum"
    /\ UNCHANGED <<db, snapEver>>
    /\ LET paymentSummary == getPaymentSummary(req[p].id)
           workWithClient == loc[p].workWithClient
           paymentDetails ==
               IF paymentSummary.isNull THEN <<>>
               ELSE [i \in 1..Len(paymentSummary.payments) |->
                       [amount |-> paymentSummary.payments[i].amount,
                        paymentDate |-> paymentSummary.payments[i].paymentDate]]
           \* paymentSummary?.totalPaid || workWithClient.fees
           totalPaid ==
               IF paymentSummary.isNull \/ paymentSummary.totalPaid = 0
               THEN workWithClient.fees
               ELSE paymentSummary.totalPaid
       IN  Goto(p, "us_hc_exists",
                [data |-> [clientName |-> workWithClient.clientName,
                           fees |-> workWithClient.fees,
                           totalPaid |-> totalPaid,
                           \* undefined when empty; stored as null (<<>> here)
                           paymentDetails |-> paymentDetails,
                           completionDate |->
                               IF workWithClient.completionDate # NoDate
                               THEN workWithClient.completionDate ELSE now,
                           paymentReceivedDate |-> now,
                           originalWorkId |-> req[p].id,
                           originalClientId |-> workWithClient.clientId],
                 \* not a program variable: the ledger as it is at this read
                 ledgerAtRead |-> payments[req[p].id]])

\* Mutant: the catch re-throws the duplicate like any other error
CatchDuplicate_Rethrow(p) ==
    Finish(p, Err(500, "ServerError"))

\* The handler's catch around HistoryService.create: a duplicate is logged
\* and the request still succeeds
CatchDuplicate(p) ==
    Finish(p, [code |-> 200, kind |-> "ok", log |-> "already exists"])

\* HistoryService.create: the existence check before the insert
UsHistoryCheck(p) ==
    /\ pc[p] = "us_hc_exists"
    /\ UNCHANGED <<db, snapEver>>
    /\ IF existsForWork(loc[p].data.originalWorkId)
       THEN CatchDuplicate(p)
       ELSE Goto(p, "us_hc_insert", loc[p])

\* HistoryService.create: prisma.history.create
UsHistoryInsert(p) ==
    /\ pc[p] = "us_hc_insert"
    /\ UNCHANGED <<clients, clientNames, users, works, nextWorkId, payments>>
    /\ IF UniqueConstraintViolated(loc[p].data.originalWorkId)
       THEN /\ CatchDuplicate(p)
            /\ UNCHANGED <<history, snapEver>>
       ELSE /\ history' = Append(history, loc[p].data)
            /\ snapEver' = snapEver \cup {loc[p].data.originalWorkId}
            /\ Finish(p, [code |-> 200, kind |-> "ok", log |-> ""])

--------------------------------------------------------------------------
(* DELETE /api/works/[id] *)

\* The handler does not read the session: isAdmin is what checkIsAdmin
\* would have said of the requester, and nothing depends on it.
DwBegin(p, id, isAdmin) ==
    LET rq == [op |-> "deleteWork", id |-> id, isAdmin |-> isAdmin] IN
    /\ Free(p)
    /\ UNCHANGED <<db, snapEver>>
    /\ IF ~findById(id) THEN Reply(p, rq, Err(404, "NotFound"))
       ELSE IF fromPrismaStatus(works[id].status) # "finalCompleted"
       THEN Reply(p, rq, Err(403, "WorkNotDeletable"))
       ELSE Accept(p, rq, "dw_delete", NoLoc)

\* Mutant: the delete takes the work's history rows with it
DwDelete_DropsSnapshot(p) ==
    /\ pc[p] = "dw_delete"
    /\ UNCHANGED <<clients, clientNames, users, nextWorkId, snapEver>>
    /\ IF req[p].id \notin DOMAIN works
       THEN /\ Finish(p, Err(500, "ServerError"))
            /\ UNCHANGED <<works, payments, history>>
       ELSE /\ works' = [w \in DOMAIN works \ {req[p].id} |-> works[w]]
            /\ payments' = CascadePayments({req[p].id})
            /\ history' = SelectSeq(history,
                              LAMBDA h : h.originalWorkId # req[p].id)
            /\ Finish(p, [code |-> 200, kind |-> "ok"])

\* WorkService.delete(id)
DwDelete(p) ==
    /\ pc[p] = "dw_delete"
    /\ UNCHANGED <<clients, clientNames, users, nextWorkId, history, snapEver>>
    /\ IF req[p].id \notin DOMAIN works
       THEN /\ Finish(p, Err(500, "ServerError"))
            /\ UNCHANGED <<works, payments>>
       ELSE /\ works' = [w \in DOMAIN works \ {req[p].id} |-> works[w]]
            /\ payments' = CascadePayments({req[p].id})
            /\ Finish(p, [code |-> 200, kind |-> "ok"])

--------------------------------------------------------------------------
(* DELETE /api/clients/[id] *)

DcBegin(p, id, isAdmin) ==
    LET rq == [op |-> "deleteClient", id |-> id, isAdmin |-> isAdmin] IN
    /\ Free(p)
    /\ UNCHANGED <<db, snapEver>>
    /\ IF ~isAdmin
       THEN Reply(p, [op |-> "deleteClient", isAdmin |-> FALSE], Err(403, "AdminRequired"))
       ELSE IF id \notin clients THEN Reply(p, rq, Err(404, "NotFound"))
       ELSE Accept(p, rq, "dc_delete", NoLoc)

\* Mutant: the cascade takes every work, whoever its client is
DcDelete_AllWorks(p) ==
    /\ pc[p] = "dc_delete"
    /\ UNCHANGED <<clientNames, users, nextWorkId, history, snapEver>>
    /\ IF req[p].id \notin clients
       THEN /\ Finish(p, Err(500, "ServerError"))
            /\ UNCHANGED <<clients, works, payments>>
       ELSE LET gone == DOMAIN works IN
            /\ clients' = clients \ {req[p].id}
            /\ works' = [w \in DOMAIN works \ gone |-> works[w]]
            /\ payments' = CascadePayments(gone)
            /\ Finish(p, [code |-> 200, kind |-> "ok"])

\* ClientService.delete(id): works and their payments go with the client
DcDelete(p) ==
    /\ pc[p] = "dc_delete"
    /\ UNCHANGED <<clientNames, users, nextWorkId, history, snapEver>>
    /\ IF req[p].id \notin clients
       THEN /\ Finish(p, Err(500, "ServerError"))
            /\ UNCHANGED <<clients, works, payments>>
       ELSE LET gone == {w \in DOMAIN works : works[w].clientId = req[p].id} IN
            /\ clients' = clients \ {req[p].id}
            /\ works' = [w \in DOMAIN works \ gone |-> works[w]]
            /\ payments' = CascadePayments(gone)
            /\ Finish(p, [code |-> 200, kind |-> "ok"])

--------------------------------------------------------------------------
(* PATCH /api/clients/[id] *)

\* Mutant: the rename reaches the snapshots taken for the client
UcUpdate_RenamesSnapshots(p, id, name, isAdmin) ==
    LET rq == [op |-> "updateClient", id |-> id, name |-> name,
               isAdmin |-> isAdmin] IN
    /\ Free(p)
    /\ UNCHANGED <<clients, users, works, nextWorkId, payments, snapEver>>
    /\ IF ~isAdmin
       THEN /\ Reply(p, [op |-> "updateClient", isAdmin |-> FALSE],
                       Err(403, "AdminRequired"))
            /\ UNCHANGED <<clientNames, history>>
       ELSE IF name = ""
       THEN /\ Reply(p, [op |-> "updateClient", name |-> name, isAdmin |-> TRUE],
                       Err(400, "InvalidName"))
            /\ UNCHANGED <<clientNames, history>>
       ELSE IF id \notin clients
       THEN /\ Reply(p, rq, Err(500, "ServerError"))
            /\ UNCHANGED <<clientNames, history>>
       ELSE /\ clientNames' = [clientNames EXCEPT ![id] = name]
            /\ history' = [i \in 1..Len(history) |->
                              IF history[i].originalClientId = id
                              THEN [history[i] EXCEPT !.clientName = name]
                              ELSE history[i]]
            /\ Accept(p, rq, "uc_find", NoLoc)

\* ClientService.update(id, updateData)
UcUpdate(p, id, name, isAdmin) ==
    LET rq == [op |-> "updateClient", id |-> id, name |-> name,
               isAdmin |-> isAdmin] IN
    /\ Free(p)
    /\ UNCHANGED <<clients, users, works, nextWorkId, payments, history, snapEver>>
    /\ IF ~isAdmin
       THEN /\ Reply(p, [op |-> "updateClient", isAdmin |-> FALSE],
                       Err(403, "AdminRequired"))
            /\ UNCHANGED clientNames
       ELSE IF name = ""
       THEN /\ Reply(p, [op |-> "updateClient", name |-> name, isAdmin |-> TRUE],
                       Err(400, "InvalidName"))
            /\ UNCHANGED clientNames
       ELSE IF id \notin clients
       THEN /\ Reply(p, rq, Err(500, "ServerError"))   \* record to update not found
            /\ UNCHANGED clientNames
       ELSE /\ clientNames' = [clientNames EXCEPT ![id] = name]
            /\ Accept(p, rq, "uc_find", NoLoc)

\* ClientService.findByIdWithWorks(id) for the response
UcFind(p) ==
    /\ pc[p] = "uc_find"
    /\ UNCHANGED <<db, snapEver>>
    /\ IF req[p].id \notin clients
       THEN Finish(p, Err(404, "NotFound"))
       ELSE Finish(p, [code |-> 200, kind |-> "ok",
                       name |-> clientNames[req[p].id]])

--------------------------------------------------------------------------
(* pages/client/[id].tsx handleAddPayment, utils/api.utils.ts *)

\* fetch('/api/payments/create') of the page: the request reaches the
\* handler, which runs in slot p up to its first database round trip
\* (the page sends a positive number as an admin).  The attempts of the
\* page are bounded by maxRetries, not by the request budget.
Fetch(p, workId, amount, next) ==
    LET rq == [op |-> "addPayment", id |-> workId,
               amount |-> [t |-> "num", v |-> amount], isAdmin |-> TRUE] IN
    /\ pc[p] = "idle"
    /\ \A q \in Procs : q < p => pc[q] # "idle"
    /\ UNCHANGED <<db, snapEver, started>>
    /\ IF ~findById(workId)
       THEN /\ UNCHANGED <<pc, req, loc>>
            /\ resp' = [req |-> [op |-> "addPayment", id |-> workId,
                                  isAdmin |-> TRUE],
                        code |-> 404, kind |-> "NotFound",
                        body |-> Err(404, "NotFound")]
            /\ \E o \in {Response(404), Thrown} :
                  caller' = [AfterAttempt(o) EXCEPT
                                !.workId = next.workId, !.amount = next.amount,
                                !.ledgerLen = next.ledgerLen]
       ELSE /\ pc' = [pc EXCEPT ![p] = "pay_validate"]
            /\ req' = [req EXCEPT ![p] = rq]
            /\ loc' = [loc EXCEPT ![p] = [fees |-> works[workId].fees]]
            /\ resp' = NoResp
            /\ caller' = [next EXCEPT !.state = "waiting", !.slot = p]

\* handleAddPayment: the amount typed is checked, then safeApiCall makes
\* the first attempt.  The check against the cached summary is skipped
\* when the page holds no summary, so it rules out no amount here.
HandleAddPayment(p, workId, amount) ==
    /\ caller.state = "idle"
    /\ amount > 0
    /\ Fetch(p, workId, amount,
             [caller EXCEPT !.workId = workId, !.amount = amount,
                            !.ledgerLen = Len(payments[workId])])

\* fetchWithRetry: the next attempt, after the delay
CallerRetry(p) ==
    /\ caller.state = "retry"
    /\ Fetch(p, caller.workId, caller.amount, caller)

--------------------------------------------------------------------------
(* utils/api.utils.ts fetchWithRetry, called against any server *)

\* fetchWithRetry(url, options, n): with n > 0 the loop is entered and the
\* first fetch is under way; with no pass of the loop the function ends
\* at its last line and throws
FetchWithRetry(n) ==
    /\ caller.state = "idle"
    /\ caller' = IF n > 0
                 THEN [NoCaller EXCEPT !.state = "waiting", !.maxRetries = n]
                 ELSE [NoCaller EXCEPT !.state = "done", !.maxRetries = n,
                                       !.result = "threw"]
    /\ UNCHANGED <<db, snapEver, pc, req, loc, resp, started>>

\* `await fetch(url, options)` settles with outcome o
FetchSettles(o) ==
    /\ caller.state = "waiting"
    /\ caller.slot = 0
    /\ caller' = AfterAttempt(o)
    /\ UNCHANGED <<db, snapEver, pc, req, loc, resp, started>>

\* the delay is over and the loop makes its next fetch
RetryDelay ==
    /\ caller.state = "retry"
    /\ caller' = [caller EXCEPT !.state = "waiting"]
    /\ UNCHANGED <<db, snapEver, pc, req, loc, resp, started>>

--------------------------------------------------------------------------
(* scripts/migrate-payments.ts *)

\* the rows of findMany({where: {paymentReceived: true}}), by id
RECURSIVE RowsOf(_)
RowsOf(ids) ==
    IF ids = {} THEN <<>>
    ELSE LET w == CHOOSE x \in ids : \A y \in ids : x <= y IN
         <<[id |-> w, fees |-> works[w].fees,
            completionDate |-> works[w].completionDate]>>
             \o RowsOf(ids \ {w})

\* the loop goes on to the next work, or the script ends
MgAdvance(p) ==
    IF loc[p].i < Len(loc[p].worksToMigrate)
    THEN Goto(p, "mg_find", [loc[p] EXCEPT !.i = @ + 1])
    ELSE Finish(p, [code |-> 0, kind |-> "exit"])

\* Step 3: the works to migrate.  The script is started by hand, one
\* run after the other; the counts before and the verification after
\* only read and log.
MgBegin(p) ==
    LET rq == [op |-> "migratePayments", run |-> started + 1]
        worksToMigrate ==
            RowsOf({w \in DOMAIN works : works[w].paymentReceived}) IN
    /\ Free(p)
    /\ \A q \in Procs : req[q].op # "migratePayments"
    /\ UNCHANGED <<db, snapEver>>
    /\ IF Len(worksToMigrate) = 0
       THEN Reply(p, rq, [code |-> 0, kind |-> "exit"])
       ELSE Accept(p, rq, "mg_find",
                   [worksToMigrate |-> worksToMigrate, i |-> 1])

\* Mutant: the script does not look for an existing payment
MgFind_NoExistingCheck(p) ==
    LET work == loc[p].worksToMigrate[loc[p].i] IN
    /\ pc[p] = "mg_find"
    /\ UNCHANGED <<db, snapEver>>
    /\ IF work.fees <= 0
       THEN MgAdvance(p)
       ELSE Goto(p, "mg_create", loc[p])

\* Step 4, per work: tx.payment.findFirst and the test of the fees
MgFind(p) ==
    LET work == loc[p].worksToMigrate[loc[p].i]
        existingPayment == payments[work.id] # <<>> IN
    /\ pc[p] = "mg_find"
    /\ UNCHANGED <<db, snapEver>>
    /\ IF existingPayment \/ work.fees <= 0
       THEN MgAdvance(p)
       ELSE Goto(p, "mg_create", loc[p])

\* Step 4, per work: tx.payment.create
MgCreate(p) ==
    LET work == loc[p].worksToMigrate[loc[p].i] IN
    /\ pc[p] = "mg_create"
    /\ UNCHANGED <<clients, clientNames, users, works, nextWorkId, history, snapEver>>
    /\ payments' = [payments EXCEPT ![work.id] =
                       Append(@, [amount |-> work.fees,
                                  paymentDate |->
                                      IF work.completionDate # NoDate
                                      THEN work.completionDate ELSE now])]
    /\ MgAdvance(p)

--------------------------------------------------------------------------
(* services/init.service.ts initializeAdminUser *)

\* the call at start-up.  While a call is under way initializationPromise
\* is set and a further call only waits for it.
InBegin(p) ==
    LET rq == [op |-> "initializeAdminUser"] IN
    /\ Free(p)
    /\ \A q \in Procs : req[q].op # "initializeAdminUser"
    /\ UNCHANGED <<db, snapEver>>
    /\ IF findByUsername(ADMIN_USERNAME)
       THEN Reply(p, rq, [code |-> 0, kind |-> "returned", log |-> ""])
       ELSE Accept(p, rq, "in_create", NoLoc)

\* UserService.create and the catch around it
InCreate(p) ==
    /\ pc[p] = "in_create"
    /\ UNCHANGED <<clients, clientNames, works, nextWorkId, payments, history,
                   snapEver>>
    /\ IF UserUniqueViolated(ADMIN_USERNAME)
       THEN /\ Finish(p, [code |-> 0, kind |-> "returned",
                           log |-> "already exists"])
            /\ UNCHANGED users
       ELSE /\ users' = [users EXCEPT ![ADMIN_USERNAME] = @ + 1]
            /\ Finish(p, [code |-> 0, kind |-> "returned", log |-> "created"])

--------------------------------------------------------------------------
(* POST /api/auth/login *)

LgBegin(p, username, password) ==
    LET rq == [op |-> "login", username |-> username, password |-> password] IN
    /\ Free(p)
    /\ UNCHANGED <<db, snapEver>>
    /\ IF ~findByUsername(ADMIN_USERNAME)
       THEN Accept(p, rq, "lg_create", NoLoc)
       ELSE IF username = "" \/ password = ""
       THEN Reply(p, rq, Err(400, "MissingCredentials"))
       ELSE Accept(p, rq, "lg_verify", [absorbed |-> FALSE])

\* UserService.create of the admin user; a unique-constraint violation
\* is caught and the login goes on
LgCreate(p) ==
    LET violated == UserUniqueViolated(ADMIN_USERNAME) IN
    /\ pc[p] = "lg_create"
    /\ UNCHANGED <<clients, clientNames, works, nextWorkId, payments, history,
                   snapEver>>
    /\ users' = IF violated THEN users
                ELSE [users EXCEPT ![ADMIN_USERNAME] = @ + 1]
    /\ IF req[p].username = "" \/ req[p].password = ""
       THEN Finish(p, Err(400, "MissingCredentials"))
       ELSE Goto(p, "lg_verify", [absorbed |-> violated])

\* UserService.verifyCredentials
LgVerify(p) ==
    /\ pc[p] = "lg_verify"
    /\ UNCHANGED <<db, snapEver>>
    /\ IF findByUsername(req[p].username) /\ req[p].password = "right"
       THEN Finish(p, [code |-> 200, kind |-> "ok"])
       ELSE Finish(p, Err(401, "InvalidCredentials"))

--------------------------------------------------------------------------
(* POST /api/auth/register *)

RgBegin(p, username) ==
    LET rq == [op |-> "register", username |-> username] IN
    /\ Free(p)
    /\ UNCHANGED <<db, snapEver>>
    /\ IF findByUsername(username)
       THEN Reply(p, rq, Err(409, "UsernameExists"))
       ELSE Accept(p, rq, "rg_create", NoLoc)

RgCreate(p) ==
    /\ pc[p] = "rg_create"
    /\ UNCHANGED <<clients, clientNames, works, nextWorkId, payments, history,
                   snapEver>>
    /\ IF UserUniqueViolated(req[p].username)
       THEN /\ Finish(p, Err(409, "UsernameExists"))
            /\ UNCHANGED users
       ELSE /\ users' = [users EXCEPT ![req[p].username] = @ + 1]
            /\ Finish(p, [code |-> 201, kind |-> "ok"])

--------------------------------------------------------------------------
(* DELETE /api/history/[id] *)

\* Mutant: the delete takes the originating work and its payments too
DeleteHistory_AlsoWork(p, i, isAdmin) ==
    LET rq == [op |-> "deleteHistory", row |-> i, isAdmin |-> isAdmin] IN
    /\ Free(p)
    /\ UNCHANGED <<clients, clientNames, users, nextWorkId, snapEver>>
    /\ IF ~isAdmin
       THEN /\ Reply(p, [op |-> "deleteHistory", isAdmin |-> FALSE],
                       Err(403, "AdminRequired"))
            /\ UNCHANGED <<history, works, payments>>
       ELSE IF i \notin 1..Len(history)
       THEN /\ Reply(p, rq, Err(500, "ServerError"))
            /\ UNCHANGED <<history, works, payments>>
       ELSE /\ history' = RemoveAt(history, i)
            /\ works' = [w \in DOMAIN works \ {history[i].originalWorkId} |->
                            works[w]]
            /\ payments' = CascadePayments({history[i].originalWorkId})
            /\ pc' = pc /\ req' = req /\ loc' = loc /\ caller' = caller
            /\ resp' = [req |-> rq, code |-> 200, kind |-> "ok",
                        body |-> [code |-> 200, kind |-> "ok"]]
            /\ started' = started + 1

\* HistoryService.delete(id); i is the row the id names
DeleteHistory(p, i, isAdmin) ==
    LET rq == [op |-> "deleteHistory", row |-> i, isAdmin |-> isAdmin] IN
    /\ Free(p)
    /\ UNCHANGED <<clients, clientNames, users, works, nextWorkId, payments, snapEver>>
    /\ IF ~isAdmin
       THEN /\ Reply(p, [op |-> "deleteHistory", isAdmin |-> FALSE],
                       Err(403, "AdminRequired"))
            /\ UNCHANGED history
       ELSE IF i \notin 1..Len(history)
       THEN /\ Reply(p, rq, Err(500, "ServerError"))   \* record to delete not found
            /\ UNCHANGED history
       ELSE /\ history' = RemoveAt(history, i)
            /\ pc' = pc /\ req' = req /\ loc' = loc /\ caller' = caller
            /\ resp' = [req |-> rq, code |-> 200, kind |-> "ok",
                        body |-> [code |-> 200, kind |-> "ok"]]
            /\ started' = started + 1

--------------------------------------------------------------------------
\* the steps of the requests on works that exist; the delete of a work is
\* asked for by the admin
WorkRequests ==
    \/ \E p \in Procs, w \in WorkIds, a \in AmountInputs, adm \in BOOLEAN :
          PayBegin(p, w, a, adm)
    \/ \E p \in Procs : PayValidate(p)
    \/ \E p \in Procs : PayCreate(p)
    \/ \E p \in Procs : PaySummary(p)
    \/ \E p \in Procs, w \in WorkIds, s \in StatusInputs, adm \in BOOLEAN :
          UsBegin(p, w, s, adm)
    \/ \E p \in Procs : UsSummary(p)
    \/ \E p \in Procs : UsUpdate(p)
    \/ \E p \in Procs : UsExists(p)
    \/ \E p \in Procs : UsFindWithClient(p)
    \/ \E p \in Procs : UsSnapshotSummary(p)
    \/ \E p \in Procs : UsHistoryCheck(p)
    \/ \E p \in Procs : UsHistoryInsert(p)
    \/ \E p \in Procs, w \in WorkIds : DwBegin(p, w, TRUE)
    \/ \E p \in Procs : DwDelete(p)
    \/ \E p \in Procs, c \in ClientIds, adm \in BOOLEAN : DcBegin(p, c, adm)
    \/ \E p \in Procs : DcDelete(p)
    \/ \E p \in Procs, i \in 1..(MaxWorks + 1), adm \in BOOLEAN :
          DeleteHistory(p, i, adm)

Next ==
    \/ \E p \in Procs, c \in ClientIds, f \in FeeInputs, b \in FormBodies :
          AddWork(p, c, f, b)
    \/ WorkRequests

Spec == Init /\ [][Next]_vars

\* Works added with any body, and the requests on them, on a database
\* without works or with a work that has run its course
NextCreate ==
    \/ \E p \in Procs, c \in ClientIds, f \in FeeInputs, b \in WorkBodies :
          AddWork(p, c, f, b)
    \/ WorkRequests

InitCreate ==
    Init /\ (works = <<>> \/ works[1].status = toPrismaStatus("finalCompleted"))

SpecCreate == InitCreate /\ [][NextCreate]_vars

\* The requests on works, the delete of a work being asked for by any
\* user
NextSession ==
    \/ WorkRequests
    \/ \E p \in Procs, w \in WorkIds : DwBegin(p, w, FALSE)

SpecSession == Init /\ [][NextSession]_vars

\* The requests on the works of the database together with the updates
\* of a client
NextClient ==
    \/ WorkRequests
    \/ \E p \in Procs, c \in ClientIds, n \in NameInputs, adm \in BOOLEAN :
          UcUpdate(p, c, n, adm)
    \/ \E p \in Procs : UcFind(p)

\* a database in which work 1 has been marked Completed or finalized
InitClient == Init /\ works # <<>> /\ works[1].completionDate # NoDate

SpecClient == InitClient /\ [][NextClient]_vars

\* One add-payment action of the page against the payment handler, with
\* deletes of clients by other users
NextCaller ==
    \/ \E p \in Procs, w \in WorkIds, a \in {0, 1, MaxFees} :
          HandleAddPayment(p, w, a)
    \/ \E p \in Procs : CallerRetry(p)
    \/ \E p \in Procs : PayValidate(p)
    \/ \E p \in Procs : PayCreate(p)
    \/ \E p \in Procs : PaySummary(p)
    \/ \E p \in Procs, c \in ClientIds, adm \in BOOLEAN : DcBegin(p, c, adm)
    \/ \E p \in Procs : DcDelete(p)

SpecCaller == Init /\ [][NextCaller]_vars

\* One add-payment action of the page together with the add-payment and
\* update-status requests of other sessions
NextFreeze ==
    \/ \E p \in Procs, w \in WorkIds, a \in {0, 1, MaxFees} :
          HandleAddPayment(p, w, a)
    \/ \E p \in Procs : CallerRetry(p)
    \/ \E p \in Procs, w \in WorkIds, a \in AmountInputs, adm \in BOOLEAN :
          PayBegin(p, w, a, adm)
    \/ \E p \in Procs : PayValidate(p)
    \/ \E p \in Procs : PayCreate(p)
    \/ \E p \in Procs : PaySummary(p)
    \/ \E p \in Procs, w \in WorkIds, s \in StatusInputs, adm \in BOOLEAN :
          UsBegin(p, w, s, adm)
    \/ \E p \in Procs : UsSummary(p)
    \/ \E p \in Procs : UsUpdate(p)
    \/ \E p \in Procs : UsExists(p)
    \/ \E p \in Procs : UsFindWithClient(p)
    \/ \E p \in Procs : UsSnapshotSummary(p)
    \/ \E p \in Procs : UsHistoryCheck(p)
    \/ \E p \in Procs : UsHistoryInsert(p)

SpecFreeze == Init /\ [][NextFreeze]_vars

\* Calls of fetchWithRetry with every number of retries up to the one
\* the page passes, against a server and a network that answer anything
NextFetch ==
    \/ \E n \in RetryInputs : FetchWithRetry(n)
    \/ \E o \in Outcomes : FetchSettles(o)
    \/ RetryDelay

InitFetch == Init /\ works = <<>>

SpecFetch == InitFetch /\ [][NextFetch]_vars

\* The database the migration finds: works of the time before the
\* payments table, with the flag set or not, and for a work with fees
\* possibly a payment entered since
LegacyWorks(ids) ==
    [ids -> [clientId : {1}, fees : FeeInputs, completionDate : {NoDate, now},
             paymentReceived : BOOLEAN,
             status : {toPrismaStatus("pending")}]]

InitMigrate ==
    /\ clients = ClientIds
    /\ clientNames = [c \in ClientIds |-> InitialName]
    /\ users = [u \in Usernames |-> IF u = ADMIN_USERNAME THEN 1 ELSE 0]
    /\ \E n \in 1..MaxWorks : works \in LegacyWorks(1..n)
    /\ nextWorkId = Cardinality(DOMAIN works) + 1
    /\ payments \in [WorkIds -> {<<>>, <<[amount |-> 1, paymentDate |-> now]>>}]
    /\ \A w \in WorkIds :
          payments[w] # <<>> => w \in DOMAIN works /\ works[w].fees >= 1
    /\ history = <<>>
    /\ snapEver = {}
    /\ pc = [p \in Procs |-> "idle"]
    /\ req = [p \in Procs |-> NoReq]
    /\ loc = [p \in Procs |-> NoLoc]
    /\ resp = NoResp
    /\ started = 0
    /\ caller = NoCaller

NextMigrate ==
    \/ \E p \in Procs : MgBegin(p)
    \/ \E p \in Procs : MgFind(p)
    \/ \E p \in Procs : MgCreate(p)

SpecMigrate == InitMigrate /\ [][NextMigrate]_vars

\* A server in front of a users table that holds the admin row or not,
\* and another user or not
InitAdmin ==
    /\ clients = ClientIds
    /\ clientNames = [c \in ClientIds |-> InitialName]
    /\ users \in [Usernames -> {0, 1}]
    /\ works = <<>>
    /\ nextWorkId = 1
    /\ payments = [w \in WorkIds |-> <<>>]
    /\ history = <<>>
    /\ snapEver = {}
    /\ pc = [p \in Procs |-> "idle"]
    /\ req = [p \in Procs |-> NoReq]
    /\ loc = [p \in Procs |-> NoLoc]
    /\ resp = NoResp
    /\ started = 0
    /\ caller = NoCaller

NextAdmin ==
    \/ \E p \in Procs : InBegin(p)
    \/ \E p \in Procs : InCreate(p)
    \/ \E p \in Procs, u \in Usernames \cup {""}, pw \in PasswordInputs :
          LgBegin(p, u, pw)
    \/ \E p \in Procs : LgCreate(p)
    \/ \E p \in Procs : LgVerify(p)
    \/ \E p \in Procs, u \in Usernames : RgBegin(p, u)
    \/ \E p \in Procs : RgCreate(p)

SpecAdmin == InitAdmin /\ [][NextAdmin]_vars

--------------------------------------------------------------------------
(* Properties *)

\* p takes the step
Steps(p) == pc'[p] # pc[p]

TotalPaid(w) == SumAmounts(payments[w])
Remaining(w) == IF works[w].fees - TotalPaid(w) > 0
                THEN works[w].fees - TotalPaid(w) ELSE 0
SnapshotsOf(w) == {i \in 1..Len(history) : history[i].originalWorkId = w}
Rank(status) ==
    CASE status \in {"PENDING", "pending"} -> 0
      [] status \in {"COMPLETED", "completed"} -> 1
      [] status \in {"FINAL_COMPLETED", "finalCompleted"} -> 2

\* C1: for every work (with non-negative fees) the sum of the amounts of
\* its stored payment entries never exceeds its fees.
C1_TotalPaidWithinFees ==
    \A w \in DOMAIN works :
        works[w].fees >= 0 => TotalPaid(w) <= works[w].fees

\* C2: check-then-insert is atomic: a payment is inserted only when, in
\* the state in which it is inserted, its amount does not exceed the
\* remaining balance, so two requests cannot jointly overpay.
C2_InsertWithinRemaining ==
    [][\A p \in Procs :
          (pc[p] = "pay_create" /\ payments' # payments /\ Steps(p))
              => req[p].amount.v <= Remaining(req[p].id)]_vars

\* C3: a work's status only stays or takes the next value of
\* Pending, Completed, FinalCompleted: no regress, no skip, no leaving
\* FinalCompleted.
C3_StatusOnlyAdvances ==
    [][\A w \in DOMAIN works \cap DOMAIN works' :
          Rank(works'[w].status) - Rank(works[w].status) \in {0, 1}]_vars

\* a request for `to` on a work the handler found in `from` that is a
\* skip, a backward move or any request on a FinalCompleted work
IllegalMove(from, to) ==
    \/ from = "pending" /\ to = "finalCompleted"
    \/ Rank(to) < Rank(from)
    \/ from = "finalCompleted"

\* C4: a status-change request that is not a legal forward move answers
\* InvalidTransition and writes nothing.
C4_IllegalMoveRejected ==
    [][\A p \in Procs :
          (pc[p] = "us_update" /\ Steps(p)
             /\ IllegalMove(loc[p].cwStatus, req[p].status))
              => /\ resp'.kind = "InvalidTransition"
                 /\ works' = works /\ payments' = payments
                 /\ history' = history]_vars

\* C5: at any time at most one history row exists per originalWorkId,
\* also when finalize requests race.
C5_AtMostOneSnapshot ==
    \A w \in WorkIds : Cardinality(SnapshotsOf(w)) <= 1

\* a finalize request is about to insert although a row for its work
\* was inserted by another request after both existence checks
C5_Witness ==
    \E p \in Procs :
        /\ pc[p] = "us_hc_insert"
        /\ Cardinality(SnapshotsOf(req[p].id)) = 1

\* C6: finalize on a Completed work with a non-zero remaining amount
\* answers PaymentPending with remaining, fees and paid, leaves the status
\* Completed and creates no snapshot.
C6_PaymentPending ==
    [][\A p \in Procs :
          (/\ pc[p] = "us_summary" /\ Steps(p)
           /\ req[p].id \in DOMAIN works
           /\ works[req[p].id].status = "COMPLETED"
           /\ Remaining(req[p].id) # 0)
              => /\ resp'.kind = "PaymentPending"
                 /\ resp'.code = 400
                 /\ resp'.body.remainingAmount = Remaining(req[p].id)
                 /\ resp'.body.totalFees = works[req[p].id].fees
                 /\ resp'.body.totalPaid = TotalPaid(req[p].id)
                 /\ works' = works
                 /\ history' = history]_vars

\* the spec's scenario shape: part paid, Completed, finalize refused
C6_Witness ==
    /\ resp.kind = "PaymentPending"
    /\ resp.req.id \in DOMAIN works
    /\ works[resp.req.id].status = "COMPLETED"
    /\ resp.body.totalPaid > 0
    /\ resp.body.remainingAmount = works[resp.req.id].fees - resp.body.totalPaid

\* C7: the snapshot a finalize inserts (for a work with non-negative
\* fees) has totalPaid equal to the sum of the work's ledger and one
\* {amount, paymentDate} pair per ledger entry, the ledger being the one
\* the database holds when the handler reads it for the snapshot.
C7_SnapshotCopiesLedger ==
    [][\A p \in Procs :
          (/\ pc[p] = "us_hc_insert" /\ Steps(p) /\ history' # history
           /\ loc[p].data.fees >= 0)
              => LET row == history'[Len(history')]
                     ledger == loc[p].ledgerAtRead
                 IN  /\ row.totalPaid = SumAmounts(ledger)
                     /\ Len(row.paymentDetails) = Len(ledger)
                     /\ \A i \in 1..Len(ledger) :
                           row.paymentDetails[Len(ledger) + 1 - i] = ledger[i]]_vars

\* C8: a finalize request that answers success has a snapshot created
\* for its work at some time.
C8_FinalizedHasSnapshot ==
    (/\ resp.req.op = "updateStatus"
     /\ resp.code = 200
     /\ resp.req.status = "finalCompleted")
        => resp.req.id \in snapEver

\* C9: a duplicate detected by HistoryService.create (existence check or
\* unique index) ends the finalize request with success and the status
\* written stays.
C9_DuplicateIsSuccess ==
    [][\A p \in Procs :
          (/\ pc[p] \in {"us_hc_exists", "us_hc_insert"} /\ Steps(p)
           /\ SnapshotsOf(req[p].id) # {})
              => /\ resp'.code = 200
                 /\ pc'[p] = "idle"
                 /\ works' = works
                 /\ history' = history]_vars

\* a finalize request ended with the duplicate warning while its work is
\* FinalCompleted
C9_Witness ==
    /\ resp.req.op = "updateStatus"
    /\ resp.code = 200
    /\ resp.body.log = "already exists"
    /\ resp.req.id \in DOMAIN works
    /\ works[resp.req.id].status = "FINAL_COMPLETED"

\* C10: a finalize request on a work it found FinalCompleted fails fast:
\* it never goes on to the balance read or the write.
C10_AlreadyFinalFailsFast ==
    \A p \in Procs :
        (pc[p] \in {"us_summary", "us_update"}
           /\ req[p].status = "finalCompleted")
            => loc[p].cwStatus # "finalCompleted"

\* C11: however a finalize interleaves with add-payment requests, the
\* write of FinalCompleted by a finalize request happens only in a state
\* in which the work's remaining amount is zero, and the balance the
\* finalize reads counts every payment committed before the read.
C11_FinalWriteOnZeroBalance ==
    [][\A p \in Procs :
          /\ (/\ pc[p] = "us_update" /\ Steps(p)
              /\ req[p].status = "finalCompleted"
              /\ works' # works)
                 => Remaining(req[p].id) = 0
          /\ (/\ pc[p] = "us_summary" /\ Steps(p)
              /\ req[p].id \in DOMAIN works
              /\ pc'[p] = "us_update")
                 => works[req[p].id].fees - TotalPaid(req[p].id) <= 0]_vars

\* a finalize has written FinalCompleted on a work with a non-empty
\* ledger while an add-payment request on the same work is in flight
C11_Witness ==
    \E p, q \in Procs :
        /\ pc[p] = "us_exists"
        /\ pc[q] \in {"pay_validate", "pay_create", "pay_summary"}
        /\ req[q].id = req[p].id
        /\ req[p].id \in DOMAIN works
        /\ works[req[p].id].status = "FINAL_COMPLETED"
        /\ payments[req[p].id] # <<>>

\* C12: the write of FinalCompleted is guarded by the prior status: of
\* several concurrent finalize requests that found the work Completed at
\* most one writes and goes on to snapshot creation, so none of them
\* writes onto a work another one has already made FinalCompleted.
C12_FinalWriteGuarded ==
    [][\A p \in Procs :
          (/\ pc[p] = "us_update" /\ Steps(p)
           /\ req[p].status = "finalCompleted"
           /\ loc[p].cwStatus = "completed"
           /\ pc'[p] = "us_exists")
              => works[req[p].id].status # "FINAL_COMPLETED"]_vars

\* C13: a deleteWork request answered while the work exists in status
\* Pending or Completed is answered WorkNotDeletable and leaves works,
\* payments and history unchanged (so it succeeds only on a FinalCompleted
\* work); one whose id names no work when the handler looks it up is
\* answered NotFound.
C13_DeleteOnlyFinalCompleted ==
    [][resp'.req.op = "deleteWork"
          => LET id == resp'.req.id IN
             /\ (id \in DOMAIN works /\ works[id].status # "FINAL_COMPLETED")
                   => /\ resp'.kind = "WorkNotDeletable"
                      /\ works' = works /\ payments' = payments
                      /\ history' = history
             /\ (id \notin DOMAIN works /\ started' = started + 1)
                   => resp'.kind = "NotFound"]_vars

\* C14: a deleteWork that succeeds removes the work and every payment
\* entry of that work and changes nothing else: every history row (the
\* deleted work's own snapshot included), every client and every other
\* work with its payments stay as they were.
C14_DeleteWorkFrame ==
    [][\A p \in Procs :
          (pc[p] = "dw_delete" /\ Steps(p) /\ resp'.code = 200)
              => LET id == req[p].id IN
                 /\ id \notin DOMAIN works'
                 /\ payments'[id] = <<>>
                 /\ history' = history
                 /\ clients' = clients
                 /\ DOMAIN works' = DOMAIN works \ {id}
                 /\ \A w \in DOMAIN works' :
                       works'[w] = works[w] /\ payments'[w] = payments[w]]_vars

\* a deleteWork has succeeded on a work whose snapshot, with its payment
\* details, is still in the history, while another work exists
C14_Witness ==
    /\ resp.req.op = "deleteWork"
    /\ resp.code = 200
    /\ resp.req.id \notin DOMAIN works
    /\ DOMAIN works # {}
    /\ \E i \in 1..Len(history) :
          /\ history[i].originalWorkId = resp.req.id
          /\ history[i].paymentDetails # <<>>

\* C15: a deleteClient that succeeds removes the client, all works of
\* that client whatever their status and all payment entries of those
\* works; every history row (those of the client's works included) and
\* the works and payments of other clients stay as they were.
C15_DeleteClientFrame ==
    [][\A p \in Procs :
          (pc[p] = "dc_delete" /\ Steps(p) /\ resp'.code = 200)
              => LET c == req[p].id
                     own == {w \in DOMAIN works : works[w].clientId = c}
                 IN  /\ clients' = clients \ {c}
                     /\ DOMAIN works' = DOMAIN works \ own
                     /\ \A w \in own : payments'[w] = <<>>
                     /\ \A w \in DOMAIN works' :
                           works'[w] = works[w] /\ payments'[w] = payments[w]
                     /\ history' = history]_vars

\* a deleteClient has succeeded on a client whose work had a snapshot
\* with payment details, which is still there, and the work of another
\* client is still there
C15_Witness ==
    /\ resp.req.op = "deleteClient"
    /\ resp.code = 200
    /\ resp.req.id \notin clients
    /\ \E w \in DOMAIN works : works[w].clientId # resp.req.id
    /\ \E i \in 1..Len(history) :
          /\ history[i].originalClientId = resp.req.id
          /\ history[i].originalWorkId \notin DOMAIN works
          /\ history[i].paymentDetails # <<>>

\* C16: a deleteHistorySnapshot that succeeds removes the one row it
\* names and nothing else: the other rows keep their content and order,
\* and no work, payment entry or client changes, whether the originating
\* work and client still exist or not.
C16_DeleteSnapshotFrame ==
    [][(resp'.req.op = "deleteHistory" /\ resp'.code = 200)
          => LET i == resp'.req.row IN
             /\ i \in 1..Len(history)
             /\ Len(history') = Len(history) - 1
             /\ \A j \in 1..Len(history') :
                   history'[j] = IF j < i THEN history[j] ELSE history[j + 1]
             /\ works' = works
             /\ payments' = payments
             /\ clients' = clients]_vars

\* a snapshot has been deleted after its originating work and client
\* were deleted
C16_Witness ==
    /\ resp.req.op = "deleteHistory"
    /\ resp.code = 200
    /\ history = <<>>
    /\ \E w \in snapEver : w \notin DOMAIN works
    /\ clients # ClientIds

\* the amount, as the request carries it, is null or converts to
\* something that is not a number, not finite or not greater than zero
InvalidAmount(amount) ==
    \/ amount.t = "null"
    \/ Number(amount).t # "num"
    \/ Number(amount).v <= 0

C18_OverpaymentRejected ==
    [][\A p \in Procs :
          (/\ pc[p] = "pay_validate" /\ Steps(p)
           /\ req[p].id \in DOMAIN works
           /\ req[p].amount.v > Remaining(req[p].id))
              => /\ resp'.kind = "OverpaymentRejected"
                 /\ resp'.code = 400
                 /\ resp'.body.remainingAmount = Remaining(req[p].id)
                 /\ payments' = payments]_vars

\* the spec's example in small: the whole fee is offered when a part is
\* already paid, and the answer reports the part still open
C18_Witness ==
    /\ resp.kind = "OverpaymentRejected"
    /\ resp.req.id \in DOMAIN works
    /\ payments[resp.req.id] # <<>>
    /\ resp.body.remainingAmount > 0
    /\ resp.body.remainingAmount = Remaining(resp.req.id)
    /\ resp.req.amount.v > resp.body.remainingAmount

\* C19: an addPayment request whose workId names no existing work when
\* the handler looks the work up, validates or inserts is answered with
\* a NotFound error and inserts nothing, so no payment entry ever belongs
\* to a work that does not exist.
C19_UnknownWorkRejected ==
    [][/\ (/\ resp'.req.op = "addPayment"
           /\ started' = started + 1
           /\ "id" \in DOMAIN resp'.req
           /\ resp'.req.id \notin DOMAIN works)
              => /\ resp'.kind = "NotFound"
                 /\ resp'.code = 404
                 /\ payments' = payments
       /\ \A p \in Procs :
             (/\ pc[p] \in {"pay_validate", "pay_create"} /\ Steps(p)
              /\ req[p].id \notin DOMAIN works)
                 => /\ resp'.kind = "NotFound"
                    /\ payments' = payments
       /\ \A w \in WorkIds \ DOMAIN works' : payments'[w] = <<>>]_vars

\* the work was deleted between the handler's validation and its insert,
\* and the insert was refused
C19_Witness ==
    /\ resp.req.op = "addPayment"
    /\ resp.kind = "NotFound"
    /\ resp.code = 404
    /\ "amount" \in DOMAIN resp.req
    /\ resp.req.id \notin DOMAIN works
    /\ payments[resp.req.id] = <<>>

\* C20: for every work, whatever its fees and its ledger, the summary's
\* remaining amount is max(0, fees - totalPaid): never negative, zero
\* exactly when totalPaid >= fees, the difference otherwise; totalPaid is
\* the sum of the ledger and 0 when the ledger is empty.
C20_RemainingFlooredAtZero ==
    \A w \in DOMAIN works :
        LET summary == getPaymentSummary(w) IN
        /\ summary.totalPaid = TotalPaid(w)
        /\ (payments[w] = <<>> => summary.totalPaid = 0)
        /\ summary.remainingAmount >= 0
        /\ (summary.remainingAmount = 0
               <=> summary.totalPaid >= summary.totalFees)
        /\ (summary.totalPaid < summary.totalFees
               => summary.remainingAmount
                     = summary.totalFees - summary.totalPaid)

\* the summary sent after a payment on an overpaid ledger: more paid than
\* the fees, and a remaining amount of zero
C20_Witness ==
    /\ resp.req.op = "addPayment"
    /\ resp.code = 201
    /\ resp.req.id \in DOMAIN works
    /\ resp.body.totalPaid > works[resp.req.id].fees
    /\ resp.body.remainingAmount = 0

\* s is an initial segment of t
IsPrefix(s, t) == Len(s) <= Len(t) /\ \A i \in 1..Len(s) : t[i] = s[i]

\* C21: the ledger is append-only.  In every step the ledger of a work
\* that stays is an initial segment of its new ledger (no entry of it is
\* changed or removed) and its total paid does not decrease; entries go
\* away only with their work, and a work goes away only by the last step
\* of a deleteWork or deleteClient request.
C21_LedgerAppendOnly ==
    [][\A w \in WorkIds :
          /\ (w \in DOMAIN works /\ w \in DOMAIN works')
                => /\ IsPrefix(payments[w], payments'[w])
                   /\ SumAmounts(payments'[w]) >= SumAmounts(payments[w])
          /\ ~IsPrefix(payments[w], payments'[w])
                => /\ w \in DOMAIN works /\ w \notin DOMAIN works'
                   /\ resp'.req.op \in {"deleteWork", "deleteClient"}
                   /\ resp'.code = 200]_vars

\* a second entry has been appended to the ledger of a work
C21_Witness ==
    \E w \in DOMAIN works : Len(payments[w]) = 2

\* C22: a snapshot is immutable.  Every step leaves the history store as
\* it is, or appends one row to it, or is the successful deleteHistory
\* request that removes one row; the rows that stay keep every field,
\* whatever the step does to clients, works and payments.
C22_SnapshotImmutable ==
    [][\/ history' = history
       \/ /\ Len(history') = Len(history) + 1
          /\ SubSeq(history', 1, Len(history)) = history
       \/ /\ \E i \in 1..Len(history) : history' = RemoveAt(history, i)
          /\ resp'.req.op = "deleteHistory"
          /\ resp'.code = 200]_vars

\* a snapshot still carries the name its client had when it was taken,
\* after the client has been renamed
C22_Witness ==
    \E i \in 1..Len(history) :
        /\ history[i].originalClientId \in clients
        /\ history[i].clientName = InitialName
        /\ clientNames[history[i].originalClientId] = "renamed"

\* C23: over the lifetime of a work at most one snapshot is ever created
\* for its id: a row appended to the history store is for a work for
\* which no row was inserted before, deleted since or not.
C23_OneSnapshotEver ==
    [][Len(history') > Len(history)
          => history'[Len(history')].originalWorkId \notin snapEver]_vars

\* what the status handler decides for an admin's finalize request on
\* work w in the current state: the work is found, its summary is read,
\* and the remaining amount of that summary is zero
FinalizeAccepted(w) ==
    /\ findById(w)
    /\ LET paymentSummary == getPaymentSummary(w) IN
       /\ ~paymentSummary.isNull
       /\ paymentSummary.remainingAmount = 0

C25_MarkCompletedOnlyFromPending ==
    [][\A p \in Procs :
          (pc[p] = "us_update" /\ Steps(p) /\ req[p].status = "completed"
             /\ resp'.code = 200)
              => /\ works[req[p].id].status = "PENDING"
                 /\ works'[req[p].id].status = "COMPLETED"
                 /\ payments' = payments
                 /\ history' = history]_vars

\* C26: once a work has a completion date no status-change request
\* writes the column again: a step that writes a completion date writes
\* it on a work whose completion date is still unset.
C26_CompletionDateSetOnce ==
    [][\A p \in Procs :
          (pc[p] = "us_update" /\ Steps(p) /\ req[p].id \in DOMAIN works
             /\ loc[p].updDate # NoDate)
              => works[req[p].id].completionDate = NoDate]_vars

\* C27: every work a step leaves in the database has fees of at least
\* zero, and no step changes the fees of a work that has a payment entry.
C27_FeesNonNegativeAndFixed ==
    [][/\ \A w \in DOMAIN works' : works'[w].fees >= 0
       /\ \A w \in DOMAIN works \cap DOMAIN works' :
             payments[w] # <<>> => works'[w].fees = works[w].fees]_vars

\* C28: one add-payment action of the page produces at most one ledger
\* entry: while the action runs and after it, the ledger of its work (no
\* other payment request running) holds at most one entry more than when
\* the action began.
C28_OneEntryPerAction ==
    caller.state # "idle"
        => Len(payments[caller.workId]) <= caller.ledgerLen + 1

\* C29: the migration is idempotent and adds no duplicate.  A step of
\* the script changes no client, work or history row; it changes a ledger
\* only by putting one entry, of the amount of the fees, into the empty
\* ledger of a work with paymentReceived set and fees above zero; and a
\* run that follows a finished run changes no ledger at all.
C29_MigrationIdempotent ==
    [][/\ works' = works /\ clients' = clients /\ clientNames' = clientNames
       /\ history' = history
       /\ \A w \in WorkIds :
             payments'[w] # payments[w]
                => /\ w \in DOMAIN works
                   /\ works[w].paymentReceived
                   /\ works[w].fees > 0
                   /\ payments[w] = <<>>
                   /\ Len(payments'[w]) = 1
                   /\ payments'[w][1].amount = works[w].fees
                   /\ \A p \in Procs :
                         (pc[p] = "mg_create" /\ Steps(p)) => req[p].run = 1]_vars

\* a second run of the script has ended, and the entry the first run
\* made for a paid work is still the only entry of that work
C29_Witness ==
    /\ resp.kind = "exit"
    /\ resp.req.run = 2
    /\ \E w \in DOMAIN works :
          /\ works[w].paymentReceived
          /\ works[w].fees = MaxFees
          /\ Len(payments[w]) = 1
          /\ payments[w][1].amount = MaxFees

\* C30: the creation of the default admin is idempotent and safe under
\* races.  No step leaves more than one row with the admin username; when
\* an initialization returns, or a login request is past its bootstrap,
\* exactly one such row exists; and a creator that finds the row already
\* inserted goes on as if it had inserted it: the initialization returns
\* and the login goes on to check the credentials or answers 400, never
\* a server error.
C30_AdminCreatedOnce ==
    [][/\ users'[ADMIN_USERNAME] <= 1
       /\ resp'.kind = "returned" => users'[ADMIN_USERNAME] = 1
       /\ \A p \in Procs :
             /\ (pc'[p] = "lg_verify" /\ Steps(p))
                   => users'[ADMIN_USERNAME] = 1
             /\ (pc[p] = "in_create" /\ Steps(p)) => resp'.kind = "returned"
             /\ (pc[p] = "lg_create" /\ Steps(p))
                   => \/ pc'[p] = "lg_verify"
                      \/ resp'.code = 400]_vars

\* a login request is past its bootstrap after its create hit the unique
\* index: another invocation inserted the admin row between its check
\* and its create
C30_Witness ==
    \E p \in Procs :
        /\ pc[p] = "lg_verify"
        /\ loc[p].absorbed
        /\ users[ADMIN_USERNAME] = 1

C34_LedgerFrozenOnceFinal ==
    [][\A w \in DOMAIN works :
          (works[w].status = "FINAL_COMPLETED" /\ w \in DOMAIN works')
              => payments'[w] = payments[w]]_vars

C36_SnapshotTotalsAgree ==
    [][\A p \in Procs :
          (pc[p] = "us_hc_insert" /\ Steps(p) /\ history' # history)
              => LET row == history'[Len(history')] IN
                 /\ row.totalPaid = SumAmounts(row.paymentDetails)
                 /\ row.totalPaid = row.fees]_vars

\* What a call of fetchWithRetry owes its caller, given which outcomes of
\* a fetch count as to be tried again: never more fetches than
\* maxRetries; a further fetch only after an outcome that is to be tried
\* again; and at the end the first response that is not to be tried
\* again is the one returned, the last response is returned when the
\* attempts ran out on a response, and the error is thrown when they ran
\* out on a thrown error.
FetchContract(Retried(_)) ==
    LET seen == caller.seen
        issued == Len(seen) + (IF caller.state = "waiting" THEN 1 ELSE 0) IN
    /\ issued <= caller.maxRetries
    /\ caller.state = "retry" => Len(seen) < caller.maxRetries
    /\ \A i \in 1..Len(seen) :
          (i < Len(seen) \/ caller.state # "done") => Retried(seen[i])
    /\ (caller.state = "done" /\ seen # <<>>)
          => LET last == seen[Len(seen)] IN
             /\ Retried(last) => Len(seen) = caller.maxRetries
             /\ last.t = "response"
                   => caller.result = "returned" /\ caller.status = last.status
             /\ last.t = "throw" => caller.result = "threw"

\* C37 as stated: fetchWithRetry ends after at most maxRetries fetches;
\* it returns the first response whose status is below 500, the last
\* response when every attempt was answered 5xx, and throws the last
\* error when the last attempt failed with a network error; no fetch is
\* issued after a response that is not 5xx.
C37_RetryOnlyServerErrors ==
    FetchContract(LAMBDA o : o.t = "throw" \/ o.status >= 500)

\* C37, amended: a response of status 0 is tried again like a 5xx.  The
\* response returned is the first whose status is in 1..499, or the last
\* one when the attempts ran out on a response of status 0 or 5xx.
C37_RetryServerErrorsAndStatusZero ==
    FetchContract(LAMBDA o : o.t = "throw" \/ o.status >= 500 \/ o.status = 0)

\* a call with three attempts met a response of status 0, then a 503,
\* then a thrown error, and threw
C37_Witness ==
    /\ caller.state = "done"
    /\ caller.result = "threw"
    /\ caller.seen = <<Response(0), Response(503), Thrown>>

\* C38: a request that changes works, payments, history or clients
\* (update of a work's status, payment, delete of a work, of a client,
\* of a history row) comes from the session of the admin: a step of a
\* request of any other session leaves the database as it is, and the
\* request is answered with an error status.
C38_MutationsNeedAdmin ==
    [][LET core == <<clients, works, payments, history>>
           Mutating == {"updateStatus", "addPayment", "deleteWork",
                        "deleteClient", "deleteHistory"} IN
       /\ \A p \in Procs :
             (Steps(p) /\ req[p].op \in Mutating /\ ~req[p].isAdmin)
                 => (core' = core)
       /\ (resp'.req.op \in Mutating /\ ~resp'.req.isAdmin)
             => (resp'.code >= 400 /\ core' = core)]_vars

==========================================================================
